---- MODULE Spec2Model ----
(***************************************************************************)
(* Model of the client-side state of the catalog app:                      *)
(*   - the zustand store useStore (cart, favorites) as listed in           *)
(*     THEME_USAGE_GUIDE.md (stores/useStore.ts),                          *)
(*   - the detail-view hook useProductDetail (hooks/useProductDetail.ts),  *)
(*   - the paginated product list built on useInfiniteProducts             *)
(*     (hooks/useAPI.ts, hooks/useProductsList.ts, services/api.ts).       *)
(* A product is represented by its id; its price is Price(id) in cents.    *)
(***************************************************************************)
EXTENDS Integers, Sequences, FiniteSets, TLC

\* ---------------------------------------------------------------- bounds
\* Largest quantity a cart line or the detail view's counter may reach.
MaxQty == 5
\* Most negative quantity argument / line quantity explored is -MaxNeg.
MaxNeg == 1

\* Largest number of products the catalog source holds.
MaxN == 21

\* Sample of catalog product ids.
Products == {1, 2}

\* Unit price of a product (integer cents), fixed per product.
Price(p) == 2 * p + 1

\* Largest quantity argument handed to addToCart / updateQuantity.
MaxArg == 2

\* Writes to the durable storage in flight at once.
MaxPending == 2

\* Calls of set in a behaviour that follows the storage.
MaxSets == 2

\* Restarts of the process.
MaxRestarts == 1

\* Quantity arguments handed to addToCart / updateQuantity.
QtyArgs == (0 - MaxNeg) .. MaxArg

VARIABLES
  cart,        \* useStore.cart: sequence of [product, quantity]
  favorites,   \* useStore.favorites: sequence of products
  detail,      \* state of a mounted useProductDetail hook
  last,        \* history: the operation that produced this state
  prevCart,    \* history: cart before that operation
  prevFav,     \* history: favorites before that operation
  rendered,    \* CartScreen: the cart of its last render
  run,         \* history: addToCart(p, 1) calls made since the cart was empty
  sourceSize,        \* number of products the catalog source holds (stable)
  selectedCategory,  \* useProductsList: the active filter ("null" for none)
  queries,           \* query cache: one infinite query per filter
  lastDefined,       \* key of the observer's last query with data of its own
  plast,             \* history: the list operation that produced this state
  ui,                \* useStore: selectedCategory, searchQuery, sortBy
  durable,           \* AsyncStorage: what is stored under 'app-storage'
  pending,           \* AsyncStorage.setItem calls in flight: their texts
  hydration,         \* the startup read of 'app-storage'
  sets,              \* calls of set so far, where the storage is followed
  restarts,          \* restarts of the process so far
  written            \* history: the writes of this run ("none", "ok", "failed")

storeVars == <<cart, favorites, detail, last, prevCart, prevFav, run, rendered>>

pageVars == <<sourceSize, selectedCategory, queries, lastDefined, plast>>

persistVars == <<ui, durable, pending, hydration, sets, restarts, written>>

vars == <<cart, favorites, detail, last, prevCart, prevFav, run, rendered,
          sourceSize, selectedCategory, queries, lastDefined, plast,
          ui, durable, pending, hydration, sets, restarts, written>>

\* ------------------------------------------------------------ the store
HasLine(c, productId) == \E i \in DOMAIN c : c[i].product = productId

\* Faulty variant: always appends a new line.
addToCartNoFind(c, product, quantity) ==
  Append(c, [product |-> product, quantity |-> quantity])

\* Faulty variant: an existing line's quantity is overwritten instead of increased.
addToCartOverwrite(c, product, quantity) ==
  IF HasLine(c, product)
  THEN [i \in DOMAIN c |->
          IF c[i].product = product
          THEN [c[i] EXCEPT !.quantity = quantity]
          ELSE c[i]]
  ELSE Append(c, [product |-> product, quantity |-> quantity])

addToCart(c, product, quantity) ==
  IF HasLine(c, product)
  THEN [i \in DOMAIN c |->
          IF c[i].product = product
          THEN [c[i] EXCEPT !.quantity = @ + quantity]
          ELSE c[i]]
  ELSE Append(c, [product |-> product, quantity |-> quantity])

KeepsLine(item, productId) == item.product # productId

removeFromCart(c, productId) ==
  SelectSeq(c, LAMBDA item : KeepsLine(item, productId))

updateQuantity(c, productId, quantity) ==
  [i \in DOMAIN c |->
     IF c[i].product = productId
     THEN [c[i] EXCEPT !.quantity = quantity]
     ELSE c[i]]

clearCart == << >>

RECURSIVE reduceTotal(_, _, _)
reduceTotal(c, i, total) ==
  IF i > Len(c) THEN total
  ELSE reduceTotal(c, i + 1, total + Price(c[i].product) * c[i].quantity)

\* Faulty variant: the reducer forgets the quantity.
getCartTotalNoQty(c) ==
  LET RECURSIVE r(_, _)
      r(i, total) == IF i > Len(c) THEN total
                     ELSE r(i + 1, total + Price(c[i].product))
  IN r(1, 0)

getCartTotal(c) == reduceTotal(c, 1, 0)

RECURSIVE reduceCount(_, _, _)
reduceCount(c, i, count) ==
  IF i > Len(c) THEN count
  ELSE reduceCount(c, i + 1, count + c[i].quantity)

\* Faulty variant: counts lines, not quantities.
getCartItemsCountLines(c) == Len(c)

getCartItemsCount(c) == reduceCount(c, 1, 0)

isFavorite(f, productId) == \E i \in DOMAIN f : f[i] = productId

\* Faulty variant: no membership test before appending.
addToFavoritesNoCheck(f, product) == Append(f, product)

addToFavorites(f, product) ==
  IF isFavorite(f, product) THEN f ELSE Append(f, product)

IsOther(p, productId) == p # productId

\* Faulty variant: removing a non-member drops the oldest favorite.
removeFromFavoritesDropHead(f, productId) ==
  IF isFavorite(f, productId)
  THEN SelectSeq(f, LAMBDA p : IsOther(p, productId))
  ELSE IF f = << >> THEN f ELSE Tail(f)

removeFromFavorites(f, productId) ==
  SelectSeq(f, LAMBDA p : IsOther(p, productId))

clearFavorites == << >>

\* Quantity of the line for productId, 0 when the cart has no such line.
getProductQuantityInCart(c, productId) ==
  IF HasLine(c, productId)
  THEN c[CHOOSE i \in DOMAIN c : c[i].product = productId].quantity
  ELSE 0

\* ------------------------------------------------ the detail-view hook
\* A hook that is not mounted.
Closed ==
  [open |-> FALSE, productId |-> 0, loaded |-> FALSE, quantity |-> 1,
   edited |-> FALSE]

\* useState(1), before the product query has answered or from its cache.
Mounted(p, isLoaded) ==
  [open |-> TRUE, productId |-> p, loaded |-> isLoaded, quantity |-> 1,
   edited |-> FALSE]

\* const cartQuantity = product ? getProductQuantityInCart(product.id) : 0
cartQuantity(c, d) ==
  IF d.loaded THEN getProductQuantityInCart(c, d.productId) ELSE 0

\* Faulty variant: the effect never copies the cart's quantity.
seedQuantityNever(d, cq) == d

\* Body of the effect: if (product && cartQuantity > 0) setQuantity(cartQuantity)
seedQuantity(d, cq) ==
  IF d.loaded /\ cq > 0 THEN [d EXCEPT !.quantity = cq] ELSE d

\* The effect re-runs after a render in which cartQuantity changed.
afterCartChange(d, c0, c1) ==
  IF d.open /\ cartQuantity(c1, d) # cartQuantity(c0, d)
  THEN seedQuantity(d, cartQuantity(c1, d))
  ELSE d

\* Faulty variant: on a line held, confirm adds the displayed quantity.
confirmCartAddsOnTop(c, d) ==
  IF cartQuantity(c, d) > 0
  THEN updateQuantity(c, d.productId, cartQuantity(c, d) + d.quantity)
  ELSE addToCart(c, d.productId, d.quantity)

\* Faulty variant: confirm always adds.
confirmCartAlwaysAdd(c, d) == addToCart(c, d.productId, d.quantity)

\* handleAddToCart's store call.
confirmCart(c, d) ==
  IF cartQuantity(c, d) > 0
  THEN updateQuantity(c, d.productId, d.quantity)
  ELSE addToCart(c, d.productId, d.quantity)

\* Faulty variant: the unit price, whatever the quantity.
totalPriceUnit(d) == IF d.loaded THEN Price(d.productId) ELSE 0

\* totalPrice = product ? product.price * quantity : 0
totalPrice(d) == IF d.loaded THEN Price(d.productId) * d.quantity ELSE 0

\* ------------------------------------------------- the paginated list
ITEMS_PER_PAGE == 10

\* retry: 2 of the query client's default options.
Retry == 2

Categories == {"electronics"}

\* Query keys ['products-infinite', category]; "null" is no category.
Filters == {"null"} \cup Categories

\* Faulty variant: the category is left out of the query key.
queryKeyShared(category) == "null"

\* queryKey: ['products-infinite', category]
queryKey(category) == category

\* Products 1..n; the odd ids are the electronics.
InCategory(id, category) == id % 2 = 1

AllProducts(n) == [i \in 1 .. n |-> i]

IsElectronics(id) == InCategory(id, "electronics")

\* What apiClient.get returns for the filter: the whole (category) list.
SourceList(n, category) ==
  IF category = "null"
  THEN AllProducts(n)
  ELSE SelectSeq(AllProducts(n), IsElectronics)

\* data.slice(start, end)
Slice(data, start, end) ==
  [i \in 1 .. ((IF end < Len(data) THEN end ELSE Len(data))
               - (IF start < Len(data) THEN start ELSE Len(data))) |->
     data[start + i]]

\* Faulty variant: the window starts one item late.
fetchProductsPageOffByOne(data, pageParam, limit) ==
  Slice(data, pageParam * limit + 1, pageParam * limit + 1 + limit)

fetchProductsPage(data, pageParam, limit) ==
  Slice(data, pageParam * limit, pageParam * limit + limit)

\* undefined (no next page) is modelled as -1.
NoPage == 0 - 1

\* Faulty variant: a full page is taken for the last one.
getNextPageParamFullIsLast(lastPage, allPages, limit) ==
  IF Len(lastPage) <= limit THEN NoPage ELSE Len(allPages)

\* Faulty variant: only an empty page is taken for the last one.
getNextPageParamEmptyIsLast(lastPage, allPages, limit) ==
  IF Len(lastPage) = 0 THEN NoPage ELSE Len(allPages)

getNextPageParam(lastPage, allPages, limit) ==
  IF Len(lastPage) < limit THEN NoPage ELSE Len(allPages)

\* A query the cache does not hold (or holds without data, idle).
NoQuery ==
  [pages |-> << >>, status |-> "pending", fetch |-> "idle",
   acc |-> << >>, failureCount |-> 0, category |-> "null"]

HasData(q) == Len(q.pages) > 0

\* hasNextPage of the observer's result, from the query's own data.
hasNextPage(q) ==
  /\ HasData(q)
  /\ getNextPageParam(q.pages[Len(q.pages)], q.pages, ITEMS_PER_PAGE) # NoPage

isFetchingNextPage(q) == q.fetch = "next"

\* products: the pages flattened.
RECURSIVE flatMap(_)
flatMap(pages) ==
  IF pages = << >> THEN << >> ELSE Head(pages) \o flatMap(Tail(pages))

\* A fetch of the query starts (fetchFailureCount is reset; a query without
\* data goes back to pending).
StartFetch(q, kind) ==
  [q EXCEPT !.fetch = kind, !.acc = << >>, !.failureCount = 0,
            !.status = IF HasData(q) THEN @ ELSE "pending"]

\* The observer of the list subscribes to the query of filter k: a query
\* without data is fetched, one with stale data is refetched.
Subscribe(q, isStale) ==
  IF q.fetch # "idle" THEN q
  ELSE IF ~HasData(q) THEN StartFetch(q, "initial")
  ELSE IF isStale THEN StartFetch(q, "refetch")
  ELSE q

\* One request of the in-flight fetch of q has answered with the window
\* of the source list it asked for.
AfterPage(q, data) ==
  IF q.fetch = "next"
  THEN [q EXCEPT
          !.pages = Append(@, fetchProductsPage(data, Len(@), ITEMS_PER_PAGE)),
          !.status = "success", !.fetch = "idle", !.failureCount = 0]
  ELSE LET acc1 == Append(q.acc,
                     fetchProductsPage(data, Len(q.acc), ITEMS_PER_PAGE))
           more == /\ Len(acc1) < Len(q.pages)
                   /\ getNextPageParam(acc1[Len(acc1)], acc1, ITEMS_PER_PAGE)
                        # NoPage
       IN IF more
          THEN [q EXCEPT !.acc = acc1]
          ELSE [q EXCEPT !.pages = acc1, !.acc = << >>, !.status = "success",
                         !.fetch = "idle", !.failureCount = 0]

\* Faulty variant: a failed fetch is retried once more.
AfterFailureRetriesThrice(q) ==
  IF q.failureCount < Retry + 1
  THEN [q EXCEPT !.failureCount = @ + 1, !.acc = << >>]
  ELSE [q EXCEPT !.status = "error", !.fetch = "idle", !.acc = << >>,
                 !.failureCount = @ + 1]

\* Faulty variant: giving up drops the pages held.
AfterFailureDropsPages(q) ==
  IF q.failureCount < Retry
  THEN [q EXCEPT !.failureCount = @ + 1, !.acc = << >>]
  ELSE [q EXCEPT !.status = "error", !.fetch = "idle", !.acc = << >>,
                 !.failureCount = @ + 1, !.pages = << >>]

\* One request of the in-flight fetch of q has failed: the whole fetch is
\* run again until it has failed Retry + 1 times.
AfterFailure(q) ==
  IF q.failureCount < Retry
  THEN [q EXCEPT !.failureCount = @ + 1, !.acc = << >>]
  ELSE [q EXCEPT !.status = "error", !.fetch = "idle", !.acc = << >>,
                 !.failureCount = @ + 1]

\* refetch(): a running fetch of a query with data is cancelled and all
\* pages held are requested again; a query without data keeps its running
\* fetch or starts with page 0.
Refetched(q) ==
  IF q.fetch # "idle" /\ ~HasData(q) THEN q
  ELSE StartFetch(q, IF HasData(q) THEN "refetch" ELSE "initial")

\* Faulty variant: no placeholder data.
placeholderDataNone(previousData) == << >>

\* placeholderData: (previousData) => previousData
placeholderData(previousData) == previousData

\* data.pages of the observer's result for the active filter: the query's
\* own pages, or while it is pending without data the placeholder.
ResultPages(qs, category, ld) ==
  IF HasData(qs[queryKey(category)]) THEN qs[queryKey(category)].pages
  ELSE IF qs[queryKey(category)].status = "pending" /\ ld # "none"
       THEN placeholderData(qs[ld].pages)
       ELSE << >>

\* The query the observer last saw with data of its own.
LastDefinedAfter(qs, category, ld) ==
  IF HasData(qs[queryKey(category)]) THEN queryKey(category) ELSE ld

\* products: the flattened pages the list exposes for the active filter.
products == flatMap(ResultPages(queries, selectedCategory, lastDefined))

\* error of the observer's result for the active filter.
HasError == queries[queryKey(selectedCategory)].status = "error"

\* ------------------------------------------------------- persistence
\* The UI state of the store as created.
UiDefaults ==
  [selectedCategory |-> "null", searchQuery |-> "", sortBy |-> "name"]

\* The state object of the store (its data fields).
StoreState(c, f, u) ==
  [cart |-> c, favorites |-> f, selectedCategory |-> u.selectedCategory,
   searchQuery |-> u.searchQuery, sortBy |-> u.sortBy]

\* Faulty variant: the selected category is persisted too.
partializeWithCategory(state) ==
  [cart |-> state.cart, favorites |-> state.favorites,
   selectedCategory |-> state.selectedCategory]

\* Faulty variant: only the cart is persisted.
partializeCartOnly(state) == [cart |-> state.cart]

\* partialize: (state) => ({ cart: state.cart, favorites: state.favorites })
partialize(state) == [cart |-> state.cart, favorites |-> state.favorites]

\* No version is given to persist: the middleware's default.
version == 0

\* A text is a sequence of integers: the version, then for each of the keys
\* cart, favorites, selectedCategory either 0 (no such key) or 1 and the
\* value; a list is its length and its items, a cart line its product and
\* its quantity.
RECURSIVE FlatLines(_)
FlatLines(c) ==
  IF c = << >> THEN << >>
  ELSE <<Head(c).product, Head(c).quantity>> \o FlatLines(Tail(c))

CategoryCode(category) == IF category = "null" THEN 0 ELSE 1

CategoryOfCode(n) == IF n = 0 THEN "null" ELSE "electronics"

\* JSON.stringify({ state, version })
Stringify(value) ==
  <<value.version>>
  \o (IF "cart" \in DOMAIN value.state
      THEN <<1, Len(value.state.cart)>> \o FlatLines(value.state.cart)
      ELSE <<0>>)
  \o (IF "favorites" \in DOMAIN value.state
      THEN <<1, Len(value.state.favorites)>> \o value.state.favorites
      ELSE <<0>>)
  \o (IF "selectedCategory" \in DOMAIN value.state
      THEN <<1, CategoryCode(value.state.selectedCategory)>>
      ELSE <<0>>)

\* Where the value that starts at position i of the text ends (the position
\* after it), or 0 when the text breaks off or is malformed there.
EndOfCart(text, i) ==
  IF i > Len(text) THEN 0
  ELSE IF text[i] = 0 THEN i + 1
  ELSE IF text[i] # 1 \/ i + 1 > Len(text) THEN 0
  ELSE IF text[i + 1] < 0 \/ i + 1 + 2 * text[i + 1] > Len(text) THEN 0
  ELSE i + 2 + 2 * text[i + 1]

EndOfFavorites(text, i) ==
  IF i = 0 \/ i > Len(text) THEN 0
  ELSE IF text[i] = 0 THEN i + 1
  ELSE IF text[i] # 1 \/ i + 1 > Len(text) THEN 0
  ELSE IF text[i + 1] < 0 \/ i + 1 + text[i + 1] > Len(text) THEN 0
  ELSE i + 2 + text[i + 1]

EndOfCategory(text, i) ==
  IF i = 0 \/ i > Len(text) THEN 0
  ELSE IF text[i] = 0 THEN i + 1
  ELSE IF text[i] # 1 \/ i + 1 > Len(text) THEN 0
  ELSE IF text[i + 1] \notin {0, 1} THEN 0
  ELSE i + 2

\* JSON.parse(text) does not throw.
Parses(text) ==
  /\ Len(text) >= 1
  /\ EndOfCategory(text, EndOfFavorites(text, EndOfCart(text, 2)))
       = Len(text) + 1

CartAt(text, i) ==
  [k \in 1 .. text[i + 1] |->
     [product |-> text[i + 2 * k], quantity |-> text[i + 2 * k + 1]]]

FavoritesAt(text, i) == [k \in 1 .. text[i + 1] |-> text[i + 1 + k]]

\* JSON.parse(text), for a text that parses.
Parse(text) ==
  LET i1 == 2
      i2 == EndOfCart(text, i1)
      i3 == EndOfFavorites(text, i2)
      keys == (IF text[i1] = 1 THEN {"cart"} ELSE {})
              \cup (IF text[i2] = 1 THEN {"favorites"} ELSE {})
              \cup (IF text[i3] = 1 THEN {"selectedCategory"} ELSE {})
  IN [version |-> text[1],
      state |-> [key \in keys |->
                   IF key = "cart" THEN CartAt(text, i1)
                   ELSE IF key = "favorites" THEN FavoritesAt(text, i2)
                   ELSE CategoryOfCode(text[i3 + 1])]]

\* setItem: storage.setItem(name, { state: partialize({...get()}), version })
setItem(state) ==
  Stringify([state |-> partialize(state), version |-> version])

\* Nothing is stored under the key.
Absent == [present |-> FALSE, text |-> << >>]

Stored(text) == [present |-> TRUE, text |-> text]

\* No persisted state to merge (undefined).
NoState == [key \in {} |-> 0]

\* Faulty variant: the version of the stored value is not looked at.
migrationResultAnyVersion(stored) ==
  IF ~stored.present THEN NoState ELSE Parse(stored.text).state

\* hydrate, first step: the stored value read with getItem gives the state
\* to merge, or none when nothing is stored or when its version is not the
\* store's (no migrate is given).
migrationResult(stored) ==
  IF ~stored.present THEN NoState
  ELSE IF Parse(stored.text).version # version THEN NoState
  ELSE Parse(stored.text).state

\* Faulty variant: the persisted state is not taken over.
mergeKeepsCurrent(persistedState, currentState) == currentState

\* merge: (persistedState, currentState) => ({...currentState, ...persistedState})
merge(persistedState, currentState) ==
  [key \in DOMAIN currentState |->
     IF key \in DOMAIN persistedState THEN persistedState[key]
     ELSE currentState[key]]

\* hydrate: the state of the store after the startup read has answered
\* with what is stored. A text that does not parse rejects the read and
\* the state is left alone.
hydrate(stored, currentState) ==
  IF stored.present /\ ~Parses(stored.text) THEN currentState
  ELSE merge(migrationResult(stored), currentState)

\* Faulty variant: a rejected write takes the mutation back.
afterRejectedWriteRollsBack(current, before) == before

\* void setItem(): the rejection of a write is not handled; the state set
\* stays.
afterRejectedWrite(current, before) == current

\* --------------------------------------------------------------- history
Record(op, id, q) ==
  /\ last' = [op |-> op, id |-> id, q |-> q]
  /\ prevCart' = cart
  /\ prevFav' = favorites
  /\ UNCHANGED <<rendered, pageVars>>

\* The set of the persist middleware, after the state is set: void
\* setItem(). The storage is followed only in the behaviours of the
\* persistent store (hydration is "unobserved" in the others).
Scheduled(c, f, u) ==
  IF hydration = "unobserved"
  THEN UNCHANGED <<durable, pending, hydration, sets, restarts, written>>
  ELSE /\ sets < MaxSets
       /\ Len(pending) < MaxPending
       /\ pending' = Append(pending, setItem(StoreState(c, f, u)))
       /\ sets' = sets + 1
       /\ written' = (IF written = "none" THEN "ok" ELSE written)
       /\ UNCHANGED <<durable, hydration, restarts>>

\* set called by a cart or favorites operation.
Saved == Scheduled(cart', favorites', ui) /\ UNCHANGED ui

NoRun == [ok |-> TRUE, product |-> 0, n |-> 0]

BrokenRun == [ok |-> FALSE, product |-> 0, n |-> 0]

\* run after a cart operation that is not addToCart(p, 1)
RunAfterOther(c1) == IF c1 = << >> THEN NoRun ELSE BrokenRun

RunAfterAdd(p, q) ==
  IF q = 1 /\ run.ok /\ (run.n = 0 \/ run.product = p)
  THEN [ok |-> TRUE, product |-> p, n |-> run.n + 1]
  ELSE BrokenRun

InRange(c) ==
  \A i \in DOMAIN c : c[i].quantity \in (0 - MaxNeg) .. MaxQty

\* --------------------------------------------------------------- actions
Init ==
  /\ cart = << >>
  /\ favorites = << >>
  /\ detail = Closed
  /\ last = [op |-> "init", id |-> 0, q |-> 0]
  /\ prevCart = << >>
  /\ prevFav = << >>
  /\ rendered = << >>
  /\ run = NoRun
  /\ sourceSize = 0
  /\ selectedCategory = "null"
  /\ queries = [k \in Filters |-> NoQuery]
  /\ lastDefined = "none"
  /\ plast = [op |-> "init", key |-> "null", was |-> "pending"]
  /\ ui = UiDefaults
  /\ durable = Absent
  /\ pending = << >>
  /\ hydration = "unobserved"
  /\ sets = 0
  /\ restarts = 0
  /\ written = "none"

CallAddToCart(p, q) ==
  /\ InRange(addToCart(cart, p, q))
  /\ cart' = addToCart(cart, p, q)
  /\ detail' = afterCartChange(detail, cart, cart')
  /\ run' = RunAfterAdd(p, q)
  /\ Record("addToCart", p, q)
  /\ UNCHANGED favorites
  /\ Saved

CallRemoveFromCart(p) ==
  /\ cart' = removeFromCart(cart, p)
  /\ detail' = afterCartChange(detail, cart, cart')
  /\ run' = RunAfterOther(cart')
  /\ Record("removeFromCart", p, 0)
  /\ UNCHANGED favorites
  /\ Saved

CallUpdateQuantity(p, q) ==
  /\ cart' = updateQuantity(cart, p, q)
  /\ detail' = afterCartChange(detail, cart, cart')
  /\ run' = RunAfterOther(cart')
  /\ Record("updateQuantity", p, q)
  /\ UNCHANGED favorites
  /\ Saved

CallClearCart ==
  /\ cart' = clearCart
  /\ detail' = afterCartChange(detail, cart, cart')
  /\ run' = NoRun
  /\ Record("clearCart", 0, 0)
  /\ UNCHANGED favorites
  /\ Saved

CallAddToFavorites(p) ==
  /\ favorites' = addToFavorites(favorites, p)
  /\ Record("addToFavorites", p, 0)
  /\ UNCHANGED <<cart, detail, run>>
  /\ Saved

CallRemoveFromFavorites(p) ==
  /\ favorites' = removeFromFavorites(favorites, p)
  /\ Record("removeFromFavorites", p, 0)
  /\ UNCHANGED <<cart, detail, run>>
  /\ Saved

CallClearFavorites ==
  /\ favorites' = clearFavorites
  /\ Record("clearFavorites", 0, 0)
  /\ UNCHANGED <<cart, detail, run>>
  /\ Saved

\* The detail screen is pushed for product p; the product query answers at
\* once when the product is in the query cache.
OpenDetail(p, isLoaded) ==
  /\ ~detail.open
  /\ detail' = seedQuantity(Mounted(p, isLoaded),
                            cartQuantity(cart, Mounted(p, isLoaded)))
  /\ Record("openDetail", p, 0)
  /\ UNCHANGED <<cart, favorites, run>>
  /\ UNCHANGED persistVars

ProductLoaded ==
  /\ detail.open /\ ~detail.loaded
  /\ detail' = seedQuantity([detail EXCEPT !.loaded = TRUE],
                            getProductQuantityInCart(cart, detail.productId))
  /\ Record("productLoaded", detail.productId, 0)
  /\ UNCHANGED <<cart, favorites, run>>
  /\ UNCHANGED persistVars

IncrementQuantity ==
  /\ detail.open
  /\ detail.quantity < MaxQty
  /\ detail' = [detail EXCEPT !.quantity = @ + 1, !.edited = TRUE]
  /\ Record("incrementQuantity", detail.productId, 0)
  /\ UNCHANGED <<cart, favorites, run>>
  /\ UNCHANGED persistVars

\* Faulty variant: decrement without the floor of 1.
DecrementQuantityNoFloor ==
  /\ detail.open
  /\ detail.quantity > 0 - MaxNeg
  /\ detail' = [detail EXCEPT !.quantity = @ - 1, !.edited = TRUE]
  /\ Record("decrementQuantity", detail.productId, 0)
  /\ UNCHANGED <<cart, favorites, run>>
  /\ UNCHANGED persistVars

DecrementQuantity ==
  /\ detail.open
  /\ detail' = [detail EXCEPT
                  !.quantity = IF @ - 1 > 1 THEN @ - 1 ELSE 1,
                  !.edited = TRUE]
  /\ Record("decrementQuantity", detail.productId, 0)
  /\ UNCHANGED <<cart, favorites, run>>
  /\ UNCHANGED persistVars

HandleAddToCart ==
  /\ detail.open /\ detail.loaded
  /\ cart' = confirmCart(cart, detail)
  /\ detail' = afterCartChange(detail, cart, cart')
  /\ run' = RunAfterOther(cart')
  /\ Record("confirm", detail.productId, detail.quantity)
  /\ UNCHANGED favorites
  /\ Saved

HandleFavoritePress ==
  /\ detail.open /\ detail.loaded
  /\ favorites' = IF isFavorite(favorites, detail.productId)
                  THEN removeFromFavorites(favorites, detail.productId)
                  ELSE addToFavorites(favorites, detail.productId)
  /\ Record("favoritePress", detail.productId, 0)
  /\ UNCHANGED <<cart, detail, run>>
  /\ Saved

CloseDetail ==
  /\ detail.open
  /\ detail' = Closed
  /\ Record("closeDetail", detail.productId, 0)
  /\ UNCHANGED <<cart, favorites, run>>
  /\ UNCHANGED persistVars

\* Calls of the store's own operations, from any caller.
CartCall ==
  \/ \E p \in Products, q \in QtyArgs : CallAddToCart(p, q)
  \/ \E p \in Products : CallRemoveFromCart(p)
  \/ \E p \in Products, q \in QtyArgs : CallUpdateQuantity(p, q)
  \/ CallClearCart

FavoritesCall ==
  \/ \E p \in Products : CallAddToFavorites(p)
  \/ \E p \in Products : CallRemoveFromFavorites(p)
  \/ CallClearFavorites

DetailStep ==
  \/ \E p \in Products, isLoaded \in BOOLEAN : OpenDetail(p, isLoaded)
  \/ ProductLoaded
  \/ IncrementQuantity
  \/ DecrementQuantity
  \/ HandleAddToCart
  \/ HandleFavoritePress
  \/ CloseDetail

\* The store alone, called with any arguments.
Next == CartCall \/ FavoritesCall

Spec == Init /\ [][Next]_vars

\* The detail view on top of the store's cart.
NextDetail == CartCall \/ DetailStep

SpecDetail == Init /\ [][NextDetail]_vars

\* ----------------------------------------------------- the UI's paths
\* ProductCard's handleAddToCart: addToCart(product, 1). The card and the
\* cart screen cannot be pressed while the detail screen lies over them.
ProductCardAddToCart(p) ==
  /\ ~detail.open
  /\ CallAddToCart(p, 1)

\* CartScreen renders with the cart of the store.
RenderCart ==
  /\ rendered # cart
  /\ rendered' = cart
  /\ last' = [op |-> "renderCart", id |-> 0, q |-> 0]
  /\ prevCart' = cart
  /\ prevFav' = favorites
  /\ UNCHANGED <<cart, favorites, detail, run, pageVars, persistVars>>

\* CartScreen's handleIncrement on item i of the last render.
HandleIncrement(i) ==
  /\ ~detail.open
  /\ i \in DOMAIN rendered
  /\ rendered[i].quantity + 1 <= MaxQty
  /\ cart' = updateQuantity(cart, rendered[i].product, rendered[i].quantity + 1)
  /\ detail' = afterCartChange(detail, cart, cart')
  /\ run' = RunAfterOther(cart')
  /\ Record("handleIncrement", rendered[i].product, rendered[i].quantity + 1)
  /\ UNCHANGED favorites
  /\ Saved

\* Faulty variant: decrement always calls updateQuantity.
HandleDecrementNoRemoval(i, remove) ==
  /\ ~detail.open
  /\ i \in DOMAIN rendered
  /\ cart' = updateQuantity(cart, rendered[i].product, rendered[i].quantity - 1)
  /\ detail' = afterCartChange(detail, cart, cart')
  /\ run' = RunAfterOther(cart')
  /\ Record("handleDecrement", rendered[i].product, rendered[i].quantity - 1)
  /\ UNCHANGED favorites
  /\ Saved

\* CartScreen's handleDecrement on item i of the last render; on a quantity
\* of 1 handleRemoveItem's alert is answered with Remove or with Cancel.
HandleDecrement(i, remove) ==
  /\ ~detail.open
  /\ i \in DOMAIN rendered
  /\ IF rendered[i].quantity > 1
     THEN /\ cart' = updateQuantity(cart, rendered[i].product,
                                    rendered[i].quantity - 1)
          /\ Record("handleDecrement", rendered[i].product,
                    rendered[i].quantity - 1)
          /\ Saved
     ELSE IF remove
     THEN /\ cart' = removeFromCart(cart, rendered[i].product)
          /\ Record("handleRemoveItem", rendered[i].product, 0)
          /\ Saved
     ELSE /\ cart' = cart
          /\ Record("handleRemoveItem", rendered[i].product, 0)
          /\ UNCHANGED persistVars
  /\ detail' = afterCartChange(detail, cart, cart')
  /\ run' = RunAfterOther(cart')
  /\ UNCHANGED favorites

\* The screens of the app on the store: product cards, the cart screen and
\* the detail view.
NextUi ==
  \/ \E p \in Products : ProductCardAddToCart(p)
  \/ RenderCart
  \/ \E i \in 1 .. Cardinality(Products) : HandleIncrement(i)
  \/ \E i \in 1 .. Cardinality(Products), remove \in BOOLEAN :
       HandleDecrement(i, remove)
  \/ DetailStep

SpecUi == Init /\ [][NextUi]_vars

\* ------------------------------------------------ the list's actions
\* The products screen mounts over a catalog of 0..MaxN products: the
\* store is as constructed and the first page of filter "null" is requested.
InitPages ==
  /\ cart = << >>
  /\ favorites = << >>
  /\ detail = Closed
  /\ last = [op |-> "init", id |-> 0, q |-> 0]
  /\ prevCart = << >>
  /\ prevFav = << >>
  /\ rendered = << >>
  /\ run = NoRun
  /\ sourceSize \in 0 .. MaxN
  /\ selectedCategory = "null"
  /\ queries = [k \in Filters |->
                  IF k = queryKey("null") THEN StartFetch(NoQuery, "initial")
                  ELSE NoQuery]
  /\ lastDefined = "none"
  /\ plast = [op |-> "mount", key |-> "null", was |-> "pending"]
  /\ ui = UiDefaults
  /\ durable = Absent
  /\ pending = << >>
  /\ hydration = "unobserved"
  /\ sets = 0
  /\ restarts = 0
  /\ written = "none"

\* What every step of the list leaves behind: the observer's bookkeeping
\* and the history of the step on the query with key k.
ListStep(op, k) ==
  /\ lastDefined' = LastDefinedAfter(queries', selectedCategory', lastDefined)
  /\ plast' = [op |-> op, key |-> k, was |-> queries[k].status]
  /\ UNCHANGED <<sourceSize, storeVars, persistVars>>

HandleCategoryPress(category, isStale) ==
  /\ category # selectedCategory
  /\ selectedCategory' = category
  /\ queries' = [queries EXCEPT ![queryKey(category)] =
                   [Subscribe(@, isStale) EXCEPT !.category = category]]
  /\ ListStep("handleCategoryPress", queryKey(category))

FetchPageSuccess(k) ==
  /\ queries[k].fetch # "idle"
  /\ queries' = [queries EXCEPT ![k] =
                   AfterPage(@, SourceList(sourceSize, @.category))]
  /\ UNCHANGED selectedCategory
  /\ ListStep("fetchPageSuccess", k)

FetchPageFailure(k) ==
  /\ queries[k].fetch # "idle"
  /\ queries' = [queries EXCEPT ![k] = AfterFailure(@)]
  /\ UNCHANGED selectedCategory
  /\ ListStep("fetchPageFailure", k)

\* fetchNextPage() cancels a refetch in flight and asks for the next page.
HandleLoadMore ==
  /\ hasNextPage(queries[queryKey(selectedCategory)])
  /\ ~isFetchingNextPage(queries[queryKey(selectedCategory)])
  /\ queries' = [queries EXCEPT ![queryKey(selectedCategory)] =
                   StartFetch(@, "next")]
  /\ UNCHANGED selectedCategory
  /\ ListStep("handleLoadMore", queryKey(selectedCategory))

\* Pull to refresh: await refetch(). The refreshing flag around it only
\* drives the spinner and is not modelled.
OnRefresh ==
  /\ queries' = [queries EXCEPT ![queryKey(selectedCategory)] = Refetched(@)]
  /\ UNCHANGED selectedCategory
  /\ ListStep("onRefresh", queryKey(selectedCategory))

\* The retry button of the error view (shown on an error with nothing to
\* list): refetch().
Refetch ==
  /\ HasError
  /\ products = << >>
  /\ queries' = [queries EXCEPT ![queryKey(selectedCategory)] = Refetched(@)]
  /\ UNCHANGED selectedCategory
  /\ ListStep("refetch", queryKey(selectedCategory))

NextPages ==
  \/ \E c \in Filters, isStale \in BOOLEAN : HandleCategoryPress(c, isStale)
  \/ \E k \in Filters : FetchPageSuccess(k)
  \/ \E k \in Filters : FetchPageFailure(k)
  \/ HandleLoadMore
  \/ OnRefresh
  \/ Refetch

SpecPages == InitPages /\ [][NextPages]_vars

\* ------------------------------------------------- the persistent store
\* What 'app-storage' may hold when the process starts: nothing, a text
\* that does not parse, a snapshot of another version, a snapshot of the
\* store's version.
StoredAtStart ==
  { Absent,
    Stored(<<version, 1, 1, 1>>),
    Stored(Stringify([state |-> [cart |-> <<[product |-> 1, quantity |-> 2]>>,
                                 favorites |-> <<2>>],
                      version |-> version + 1])),
    Stored(Stringify([state |-> [cart |-> <<[product |-> 2, quantity |-> 1],
                                           [product |-> 1, quantity |-> 2]>>,
                                 favorites |-> <<1>>],
                      version |-> version])) }

\* The process starts: the store is created and hydrate() has asked for
\* the stored value.
InitPersist ==
  /\ cart = << >>
  /\ favorites = << >>
  /\ detail = Closed
  /\ last = [op |-> "init", id |-> 0, q |-> 0]
  /\ prevCart = << >>
  /\ prevFav = << >>
  /\ rendered = << >>
  /\ run = NoRun
  /\ sourceSize = 0
  /\ selectedCategory = "null"
  /\ queries = [k \in Filters |-> NoQuery]
  /\ lastDefined = "none"
  /\ plast = [op |-> "init", key |-> "null", was |-> "pending"]
  /\ ui = UiDefaults
  /\ durable \in StoredAtStart
  /\ pending = << >>
  /\ hydration = "reading"
  /\ sets = 0
  /\ restarts = 0
  /\ written = "none"

\* A step of the storage or of the UI state: cart and favorites are set
\* only where the step says so.
StoreStep(op) ==
  /\ Record(op, 0, 0)
  /\ UNCHANGED <<detail, run>>

SetSelectedCategory(category) ==
  /\ ui' = [ui EXCEPT !.selectedCategory = category]
  /\ Scheduled(cart, favorites, ui')
  /\ StoreStep("setSelectedCategory")
  /\ UNCHANGED <<cart, favorites>>

SetSearchQuery(query) ==
  /\ ui' = [ui EXCEPT !.searchQuery = query]
  /\ Scheduled(cart, favorites, ui')
  /\ StoreStep("setSearchQuery")
  /\ UNCHANGED <<cart, favorites>>

SetSortBy(sort) ==
  /\ ui' = [ui EXCEPT !.sortBy = sort]
  /\ Scheduled(cart, favorites, ui')
  /\ StoreStep("setSortBy")
  /\ UNCHANGED <<cart, favorites>>

\* The startup read answers: set(merge(persisted, get()), true), without a
\* write.
Hydrate ==
  /\ hydration = "reading"
  /\ LET state == hydrate(durable, StoreState(cart, favorites, ui))
     IN /\ cart' = state.cart
        /\ favorites' = state.favorites
        /\ ui' = [selectedCategory |-> state.selectedCategory,
                  searchQuery |-> state.searchQuery,
                  sortBy |-> state.sortBy]
  /\ hydration' = IF durable.present /\ ~Parses(durable.text)
                  THEN "failed" ELSE "done"
  /\ StoreStep("hydrate")
  /\ UNCHANGED <<durable, pending, sets, restarts, written>>

\* One of the writes in flight is done.
WriteSuccess(i) ==
  /\ i \in 1 .. Len(pending)
  /\ durable' = Stored(pending[i])
  /\ pending' = SubSeq(pending, 1, i - 1) \o SubSeq(pending, i + 1, Len(pending))
  /\ StoreStep("writeSuccess")
  /\ UNCHANGED <<cart, favorites, ui, hydration, sets, restarts, written>>

\* One of the writes in flight is rejected.
WriteFailure(i) ==
  /\ i \in 1 .. Len(pending)
  /\ pending' = SubSeq(pending, 1, i - 1) \o SubSeq(pending, i + 1, Len(pending))
  /\ cart' = afterRejectedWrite(cart, prevCart)
  /\ favorites' = afterRejectedWrite(favorites, prevFav)
  /\ written' = "failed"
  /\ StoreStep("writeFailure")
  /\ UNCHANGED <<ui, durable, hydration, sets, restarts>>

\* The process ends and starts again: what is stored stays, the rest is as
\* created.
Restart ==
  /\ hydration # "unobserved"
  /\ restarts < MaxRestarts
  /\ restarts' = restarts + 1
  /\ cart' = << >>
  /\ favorites' = << >>
  /\ ui' = UiDefaults
  /\ pending' = << >>
  /\ hydration' = "reading"
  /\ detail' = Closed
  /\ run' = NoRun
  /\ written' = "none"
  /\ Record("restart", 0, 0)
  /\ UNCHANGED <<durable, sets>>

NextPersist ==
  \/ \E p \in Products : CallAddToCart(p, 1)
  \/ \E p \in Products : CallRemoveFromCart(p)
  \/ \E p \in Products, q \in {0, MaxArg} : CallUpdateQuantity(p, q)
  \/ \E p \in Products : CallAddToFavorites(p)
  \/ \E p \in Products : CallRemoveFromFavorites(p)
  \/ SetSelectedCategory("electronics")
  \/ SetSearchQuery("a")
  \/ SetSortBy("rating")
  \/ Hydrate
  \/ \E i \in 1 .. MaxPending : WriteSuccess(i)
  \/ \E i \in 1 .. MaxPending : WriteFailure(i)
  \/ Restart

SpecPersist == InitPersist /\ [][NextPersist]_vars

\* ================================================================ claims
\* Sum of price * quantity over a set S of line indexes of cart c.
RECURSIVE SumPriceQty(_, _)
SumPriceQty(S, c) ==
  IF S = {} THEN 0
  ELSE LET i == CHOOSE x \in S : TRUE
       IN Price(c[i].product) * c[i].quantity + SumPriceQty(S \ {i}, c)

\* Sum of the quantities over a set S of line indexes of cart c.
RECURSIVE SumQty(_, _)
SumQty(S, c) ==
  IF S = {} THEN 0
  ELSE LET i == CHOOSE x \in S : TRUE
       IN c[i].quantity + SumQty(S \ {i}, c)

\* c0 with the quantity of the line for productId set to q, all else equal.
WithQuantity(c0, productId, q) ==
  [i \in DOMAIN c0 |->
     IF c0[i].product = productId
     THEN [product |-> productId, quantity |-> q]
     ELSE c0[i]]

\* C1: after any sequence of addToCart, updateQuantity, removeFromCart and
\* clearCart calls with any integer quantities, every cart line held by the
\* store has quantity >= 1.
C1_QuantitiesPositive ==
  \A i \in DOMAIN cart : cart[i].quantity >= 1

\* C2: after any sequence of store mutations no two cart lines share a
\* product id and no two favorites share a product id.
C2_UniqueIds ==
  /\ \A i, j \in DOMAIN cart :
       i # j => cart[i].product # cart[j].product
  /\ \A i, j \in DOMAIN favorites :
       i # j => favorites[i] # favorites[j]

\* C2 witness: addToCart and addToFavorites were both called for products
\* already held, with two lines and two favorites in the store.
C2_Witness ==
  /\ last.op = "addToCart"
  /\ HasLine(prevCart, last.id)
  /\ Len(cart) = 2
  /\ Len(favorites) = 2

\* C3: updateQuantity(itemId, q) with q <= 0 leaves no cart line for itemId;
\* with q >= 1 it sets the quantity of the line for itemId to exactly q.
C3_UpdateQuantityRemovesOrSets ==
  last.op = "updateQuantity" =>
    IF last.q <= 0
    THEN ~HasLine(cart, last.id)
    ELSE HasLine(prevCart, last.id) =>
           cart = WithQuantity(prevCart, last.id, last.q)

\* C4: addToCart(item, q) adds q to the quantity of the existing line for
\* item, or appends one new line (item, q) when there is none; every other
\* line is unchanged; n successive addToCart(item, 1) calls on an empty cart
\* leave the single line (item, n).
C4_AddToCartEffect ==
  /\ last.op = "addToCart" =>
       IF HasLine(prevCart, last.id)
       THEN cart = WithQuantity(prevCart, last.id,
                     getProductQuantityInCart(prevCart, last.id) + last.q)
       ELSE cart = Append(prevCart, [product |-> last.id, quantity |-> last.q])
  /\ (run.ok /\ run.n >= 1) =>
       cart = <<[product |-> run.product, quantity |-> run.n]>>

\* C4 witness: the third of three successive addToCart(item, 1) calls on an
\* empty cart has been made.
C4_Witness ==
  /\ last.op = "addToCart"
  /\ run.ok /\ run.n = 3
  /\ HasLine(prevCart, last.id)

\* C5: in every reachable store state getCartTotal() equals the sum of
\* price * quantity over the cart lines currently held (0 when empty).
C5_TotalIsSum ==
  getCartTotal(cart) = SumPriceQty(DOMAIN cart, cart)

\* C5 witness: a mutation left two lines with quantities other than 1.
C5_Witness ==
  /\ last.op = "updateQuantity"
  /\ Len(cart) = 2
  /\ cart[1].quantity = 3
  /\ cart[2].quantity = 2

\* C6: getCartItemsCount() equals the sum of the quantities of all cart
\* lines, and differs from the number of lines whenever some line has a
\* quantity other than 1.
C6_CountIsSumNotLines ==
  /\ getCartItemsCount(cart) = SumQty(DOMAIN cart, cart)
  /\ (\E i \in DOMAIN cart : cart[i].quantity # 1) =>
       getCartItemsCount(cart) # Len(cart)

\* C7: addToFavorites(X) with X already a favorite leaves the favorites
\* unchanged, with exactly one entry for X; removeFromFavorites(id) with id
\* not a favorite leaves the favorites unchanged.
C7_FavoritesIdempotent ==
  /\ (last.op = "addToFavorites" /\ isFavorite(prevFav, last.id)) =>
       /\ favorites = prevFav
       /\ Cardinality({i \in DOMAIN favorites : favorites[i] = last.id}) = 1
  /\ (last.op = "removeFromFavorites" /\ ~isFavorite(prevFav, last.id)) =>
       favorites = prevFav

\* C7 witness: addToFavorites was called for a product that already was one
\* of two favorites.
C7_Witness ==
  /\ last.op = "addToFavorites"
  /\ isFavorite(prevFav, last.id)
  /\ Len(prevFav) = 2

\* C8: confirming the detail view for an item whose quantity in the cart is
\* > 0 replaces that line's quantity by the displayed quantity; confirming
\* for an item with no cart line appends the line (item, displayed quantity).
C8_ConfirmReplaces ==
  last.op = "confirm" =>
    IF getProductQuantityInCart(prevCart, last.id) > 0
    THEN cart = WithQuantity(prevCart, last.id, last.q)
    ELSE ~HasLine(prevCart, last.id) =>
           cart = Append(prevCart, [product |-> last.id, quantity |-> last.q])

\* C8 witness: the item was in the cart with quantity 2, the displayed
\* quantity was 5 and confirm has left quantity 5 in the cart.
C8_Witness ==
  /\ last.op = "confirm"
  /\ getProductQuantityInCart(prevCart, last.id) = 2
  /\ last.q = 5
  /\ getProductQuantityInCart(cart, last.id) = 5

\* C9: once the detail view for item X has opened and its product has
\* loaded, the displayed quantity equals the cart's quantity for X when that
\* is > 0, and is 1 when the cart has no line for X (quantity in cart 0);
\* before the product has loaded it is 1.
C9_SeededFromCart ==
  (detail.open /\ last.op \in {"openDetail", "productLoaded"}) =>
    LET cq == getProductQuantityInCart(cart, detail.productId)
    IN /\ (detail.loaded /\ cq > 0) => detail.quantity = cq
       /\ (~HasLine(cart, detail.productId) /\ ~detail.edited) =>
            (cq = 0 /\ detail.quantity = 1)
       /\ last.op = "openDetail" /\ ~detail.loaded => detail.quantity = 1

\* C9 witness: the product of a detail view opened on an item held 3 times
\* in the cart has loaded.
C9_Witness ==
  /\ last.op = "productLoaded"
  /\ getProductQuantityInCart(cart, detail.productId) = 3
  /\ detail.quantity = 3

\* ceil(n / p) for n >= 0, p > 0
Ceil(n, p) == (n + p - 1) \div p

\* Loading has run to its end for filter k: pages are held and hasNextPage
\* is false.
LoadedToEnd(k) == HasData(queries[k]) /\ ~hasNextPage(queries[k])

\* C10 (as claimed): for a filter whose source list has N items, once
\* fetchNextPage has been repeated from the initial load until hasNextPage
\* is false, exactly ceil(N / P) pages are held, for every N >= 0.
C10_CeilPagesHeld ==
  \A k \in Filters :
    LoadedToEnd(k) =>
      Len(queries[k].pages) = Ceil(Len(SourceList(sourceSize, k)), ITEMS_PER_PAGE)

\* C10 (amended): for a filter whose source list has N items, once
\* fetchNextPage has been repeated from the initial load until hasNextPage
\* is false, exactly floor(N / P) + 1 pages are held, for every N >= 0.
C10_FloorPlusOnePagesHeld ==
  \A k \in Filters :
    LoadedToEnd(k) =>
      Len(queries[k].pages) =
        (Len(SourceList(sourceSize, k)) \div ITEMS_PER_PAGE) + 1

\* C10 witness: with 20 products and no category, the third page (empty)
\* has just been appended after two load-more calls and hasNextPage is false.
C10_Witness ==
  /\ plast.op = "fetchPageSuccess" /\ plast.key = "null"
  /\ sourceSize = 20
  /\ Len(queries["null"].pages) = 3
  /\ LoadedToEnd("null")

Min(a, b) == IF a < b THEN a ELSE b

NoDuplicates(seq) == \A i, j \in 1 .. Len(seq) : seq[i] = seq[j] => i = j

\* C11: for every query that holds pages, hasNextPage is true as long as
\* the last page held has exactly ITEMS_PER_PAGE items and false as soon as
\* the last page held has fewer; with 14 products and no category, page 0
\* has 10 items, page 1 has 4, hasNextPage is false once page 1 is held and
\* the flattened list has 14 items.
C11_HasNextPageUntilShortPage ==
  /\ \A k \in Filters :
       HasData(queries[k]) =>
         (hasNextPage(queries[k]) <=>
            Len(queries[k].pages[Len(queries[k].pages)]) = ITEMS_PER_PAGE)
  /\ \A k \in Filters : \A i \in 1 .. (Len(queries[k].pages) - 1) :
       Len(queries[k].pages[i]) = ITEMS_PER_PAGE
  /\ (sourceSize = 14 /\ HasData(queries["null"])) =>
       /\ Len(queries["null"].pages[1]) = 10
       /\ Len(queries["null"].pages) = 1 => hasNextPage(queries["null"])
       /\ Len(queries["null"].pages) >= 2 =>
            /\ Len(queries["null"].pages) = 2
            /\ Len(queries["null"].pages[2]) = 4
            /\ ~hasNextPage(queries["null"])
            /\ Len(flatMap(queries["null"].pages)) = 14

\* C11 witness: with 14 products and no category, page 1 (4 items) has just
\* been appended by a load-more and hasNextPage is false.
C11_Witness ==
  /\ plast.op = "fetchPageSuccess" /\ plast.key = "null"
  /\ selectedCategory = "null"
  /\ sourceSize = 14
  /\ Len(queries["null"].pages) = 2
  /\ ~hasNextPage(queries["null"])
  /\ Len(products) = 14

\* C12: for every filter, once k pages are held the flattened products are
\* the first min(N, k * ITEMS_PER_PAGE) items of the filter's source list
\* in source order, page i being the window [i * P, i * P + P) of it, and
\* no id occurs twice.
C12_PagesArePrefixOfSource ==
  \A k \in Filters :
    HasData(queries[k]) =>
      LET src  == SourceList(sourceSize, queries[k].category)
          held == queries[k].pages
          flat == flatMap(held)
      IN /\ flat = SubSeq(src, 1, Min(Len(src), Len(held) * ITEMS_PER_PAGE))
         /\ \A i \in 1 .. Len(held) :
              held[i] = SubSeq(src, Min(Len(src), (i - 1) * ITEMS_PER_PAGE) + 1,
                               Min(Len(src), i * ITEMS_PER_PAGE))
         /\ NoDuplicates(flat)

\* C12 witness: with 21 products and no category three pages are held and
\* the list shows all 21 products.
C12_Witness ==
  /\ sourceSize = 21
  /\ selectedCategory = "null"
  /\ Len(queries["null"].pages) = 3
  /\ Len(products) = 21
  /\ products[21] = 21

ActiveQuery == queries[queryKey(selectedCategory)]

IsPrefix(a, b) == Len(a) <= Len(b) /\ \A i \in 1 .. Len(a) : a[i] = b[i]

\* C13: when the list shows items and handleCategoryPress or onRefresh is
\* called, the products exposed are not empty afterwards: a switch to a
\* filter without data of its own and a refresh leave them as they were.
\* They stay so until the fetch of the active filter ends: the only step
\* that empties a non-empty list is the last failure of that fetch, and the
\* success of the first page replaces the previous items by that page at
\* once.
C13_PlaceholderRetention ==
  [][ /\ (products # << >> /\ plast'.op \in {"handleCategoryPress", "onRefresh"})
         => /\ products' # << >>
            /\ ~HasData(ActiveQuery') => products' = products
            /\ plast'.op = "onRefresh" => products' = products
      /\ (products # << >> /\ products' = << >>)
         => /\ plast'.op = "fetchPageFailure"
            /\ plast'.key = queryKey(selectedCategory)
            /\ HasError'
      /\ (/\ selectedCategory' = selectedCategory
          /\ ~HasData(ActiveQuery) /\ HasData(ActiveQuery'))
         => /\ plast'.op = "fetchPageSuccess"
            /\ products' = fetchProductsPage(
                             SourceList(sourceSize, selectedCategory), 0,
                             ITEMS_PER_PAGE)
    ]_vars

\* C13 witness: the category has just been pressed while the products of
\* no category were listed; its own first page is still in flight and the
\* list still shows products 1 and 2.
C13_Witness ==
  /\ plast.op = "handleCategoryPress"
  /\ selectedCategory = "electronics"
  /\ ~HasData(ActiveQuery)
  /\ ActiveQuery.fetch = "initial"
  /\ Len(products) >= 2 /\ products[1] = 1 /\ products[2] = 2

C19_FailureKeepsPages ==
  [][ /\ plast'.op \in {"fetchPageFailure", "handleLoadMore", "onRefresh",
                        "refetch"}
         => /\ \A k \in Filters : queries'[k].pages = queries[k].pages
            /\ HasData(ActiveQuery) => products' = products
      /\ (/\ plast'.op = "fetchPageFailure"
          /\ plast'.key = queryKey(selectedCategory)
          /\ ActiveQuery'.fetch = "idle")
         => HasError'
    ]_vars

\* C19 witness: the fetch of the third page of no category has just failed
\* for good: the error status is set and the two pages held are listed.
C19_Witness ==
  /\ plast.op = "fetchPageFailure" /\ plast.key = queryKey(selectedCategory)
  /\ selectedCategory = "null"
  /\ plast.was = "success"
  /\ HasError
  /\ ActiveQuery.fetch = "idle"
  /\ Len(ActiveQuery.pages) = 2
  /\ Len(products) = 20

\* C20: a fetch fails at most Retry + 1 = 3 times: while it runs it has
\* failed at most Retry times, and after the failure that follows Retry
\* failures it has ended in the error status. The refetch of the error view
\* then starts a fetch of the same query again, from page 0 and with no
\* failure counted.
C20_BoundedRetryThenError ==
  /\ \A k \in Filters :
       /\ queries[k].failureCount <= Retry + 1
       /\ queries[k].fetch # "idle" => queries[k].failureCount <= Retry
       /\ queries[k].failureCount = Retry + 1 =>
            (queries[k].fetch = "idle" /\ queries[k].status = "error")
  /\ plast.op = "refetch" =>
       /\ plast.was = "error"
       /\ plast.key = queryKey(selectedCategory)
       /\ ActiveQuery.fetch \in {"initial", "refetch"}
       /\ ActiveQuery.acc = << >>
       /\ ActiveQuery.failureCount = 0

\* C20 witness: the first fetch had failed three times and the retry
\* button has just started it again.
C20_Witness ==
  /\ plast.op = "refetch"
  /\ plast.was = "error"
  /\ ~HasData(ActiveQuery)
  /\ ActiveQuery.fetch = "initial"
  /\ ActiveQuery.status = "pending"
  /\ ActiveQuery.failureCount = 0

\* The operations that set a UI field, and those that set cart or
\* favorites.
UiSetters == {"setSelectedCategory", "setSearchQuery", "setSortBy"}

Mutations ==
  {"addToCart", "removeFromCart", "updateQuantity", "clearCart",
   "addToFavorites", "removeFromFavorites", "clearFavorites", "confirm",
   "favoritePress"}

\* A text holds a snapshot of exactly the cart and the favorites.
OnlyCartAndFavorites(text) ==
  Parses(text) /\ DOMAIN Parse(text).state = {"cart", "favorites"}

\* What is stored is a snapshot of the store's version.
StoredIsValid(stored) ==
  stored.present /\ Parses(stored.text) /\ Parse(stored.text).version = version

\* C15: every snapshot in flight or stored holds exactly the cart and the
\* favorites; a change of selectedCategory, searchQuery or sortBy leaves
\* cart and favorites alone and the snapshot it writes is the one of the
\* state before the change; a restart puts the UI fields back to (null, '',
\* 'name'), the startup read does not touch them, and it sets cart and
\* favorites to those of a valid stored snapshot.
C15_OnlyCartAndFavoritesPersisted ==
  /\ [](/\ \A i \in 1 .. Len(pending) : OnlyCartAndFavorites(pending[i])
        /\ (durable.present /\ Parses(durable.text))
             => OnlyCartAndFavorites(durable.text))
  /\ [][ /\ last'.op \in UiSetters
            => /\ cart' = cart /\ favorites' = favorites
               /\ durable' = durable
               /\ pending' = Append(pending,
                                    setItem(StoreState(cart, favorites, ui)))
         /\ last'.op = "restart" => ui' = UiDefaults
         /\ last'.op = "hydrate"
            => /\ ui' = ui
               /\ StoredIsValid(durable)
                    => /\ cart' = Parse(durable.text).state.cart
                       /\ favorites' = Parse(durable.text).state.favorites
       ]_vars

\* C15 witness: after a restart that restored a cart of one product, sortBy
\* has just been set: what is stored is still that cart and the write in
\* flight carries the same snapshot.
C15_Witness ==
  /\ last.op = "setSortBy"
  /\ restarts = 1
  /\ hydration = "done"
  /\ ui = [UiDefaults EXCEPT !.sortBy = "rating"]
  /\ cart = <<[product |-> 1, quantity |-> 1]>>
  /\ durable = Stored(setItem(StoreState(cart, favorites, UiDefaults)))
  /\ pending = <<durable.text>>

C17_RoundTrip ==
  LET text     == setItem(StoreState(cart, favorites, ui))
      restored == hydrate(Stored(text), StoreState(<< >>, << >>, UiDefaults))
  IN /\ Parses(text)
     /\ restored.cart = cart
     /\ restored.favorites = favorites
     /\ {restored.favorites[i] : i \in DOMAIN restored.favorites}
          = {favorites[i] : i \in DOMAIN favorites}

\* C17 witness: a cart of product 2 and the favorite 1, written by the
\* store, have been read back after a restart.
C17_Witness ==
  /\ last.op = "hydrate"
  /\ restarts = 1
  /\ cart = <<[product |-> 2, quantity |-> 1]>>
  /\ favorites = <<1>>
  /\ durable = Stored(setItem(StoreState(cart, favorites, ui)))

\* C18: a rejected write leaves cart, favorites and what is stored as they
\* are; every cart or favorites operation puts in flight a write of the
\* whole snapshot of the state it has set; a write that is done stores its
\* text, so that when the text is the snapshot of the current state what is
\* stored equals the cart and the favorites in memory.
C18_FailedWriteKeepsState ==
  [][ /\ last'.op = "writeFailure"
         => /\ cart' = cart /\ favorites' = favorites /\ ui' = ui
            /\ durable' = durable
      /\ last'.op \in Mutations
         => /\ pending' = Append(pending,
                 Stringify([state |-> [cart |-> cart', favorites |-> favorites'],
                            version |-> version]))
            /\ durable' = durable
      /\ last'.op = "writeSuccess"
         => /\ cart' = cart /\ favorites' = favorites
            /\ \E i \in 1 .. Len(pending) :
                 /\ durable' = Stored(pending[i])
                 /\ pending[i] = setItem(StoreState(cart, favorites, ui))
                      => /\ Parse(durable'.text).state.cart = cart'
                         /\ Parse(durable'.text).state.favorites = favorites'
    ]_vars

\* C18 witness: product 1 was added twice; the write of the first addition
\* was rejected, the one of the second is still in flight and carries both.
C18_Witness ==
  /\ last.op = "writeFailure"
  /\ restarts = 0
  /\ durable = Absent
  /\ cart = <<[product |-> 1, quantity |-> 2]>>
  /\ pending = <<setItem(StoreState(cart, favorites, ui))>>

\* C21 (as claimed): when a refetch of the active filter's query, such as
\* the one onRefresh starts on a query that holds pages, resolves, exactly
\* one page (index 0) is held for the active filter.
C21_RefreshHoldsOnePage ==
  [][ (/\ plast'.op = "fetchPageSuccess"
       /\ plast'.key = queryKey(selectedCategory)
       /\ ActiveQuery.fetch = "refetch"
       /\ ActiveQuery'.fetch = "idle")
      => Len(ActiveQuery'.pages) = 1
    ]_vars

\* C22 (as claimed): handleLoadMore issues a request only when no fetch of
\* the active filter (initial load, next page or refresh) is in flight and
\* the last page held is a full one.
C22_LoadMoreOnlyWhenIdle ==
  [][ plast'.op = "handleLoadMore"
      => /\ ActiveQuery.fetch = "idle"
         /\ HasData(ActiveQuery)
         /\ Len(ActiveQuery.pages[Len(ActiveQuery.pages)]) = ITEMS_PER_PAGE
    ]_vars

\* C23 (as claimed): after a switch of the active filter the sequence of
\* the filter switched to starts again: none of its pages held before is
\* kept and a fetch of page 0 is in flight.
C23_SwitchStartsFromPageZero ==
  [][ plast'.op = "handleCategoryPress"
      => /\ ~HasData(ActiveQuery')
         /\ ActiveQuery'.fetch = "initial"
    ]_vars

\* The steps of the detail view other than confirm.
DetailOpsButConfirm ==
  {"openDetail", "productLoaded", "incrementQuantity", "decrementQuantity",
   "favoritePress", "closeDetail"}

\* C24: incrementQuantity adds 1 to the displayed quantity and
\* decrementQuantity takes 1 off it but not below 1; both leave the cart,
\* the favorites and the rest of the view alone, and of the detail view's
\* steps only confirm changes the cart.
C24_QuantityButtonsAreLocal ==
  [][ /\ last'.op = "incrementQuantity"
         => detail'.quantity = detail.quantity + 1
      /\ last'.op = "decrementQuantity"
         => /\ detail'.quantity =
                 (IF detail.quantity > 1 THEN detail.quantity - 1 ELSE 1)
            /\ detail'.quantity >= 1
      /\ last'.op \in {"incrementQuantity", "decrementQuantity"}
         => /\ cart' = cart /\ favorites' = favorites
            /\ detail'.productId = detail.productId
            /\ detail'.open = detail.open /\ detail'.loaded = detail.loaded
      /\ last'.op \in DetailOpsButConfirm => cart' = cart
    ]_vars

\* C24 witness: with product 1 held twice in the cart the displayed
\* quantity has been taken down to 1 and the cart still holds it twice.
C24_Witness ==
  /\ last.op = "decrementQuantity"
  /\ detail.productId = 1
  /\ detail.quantity = 1
  /\ cart = <<[product |-> 1, quantity |-> 2]>>
  /\ prevCart = cart

\* C25: a confirm leaves the displayed quantity q in the cart line of the
\* item when the item had no quantity in the cart (Fresh) or a quantity > 0
\* (Editing-Existing), and a second confirm right after it finds the same q
\* displayed and leaves cart and favorites exactly as the first did.
C25_ConfirmIdempotent ==
  [][ /\ (/\ last'.op = "confirm"
          /\ getProductQuantityInCart(cart, last'.id) >= 0)
         => getProductQuantityInCart(cart', last'.id) = last'.q
      /\ (/\ last.op = "confirm"
          /\ getProductQuantityInCart(prevCart, last.id) >= 0
          /\ last'.op = "confirm")
         => /\ last'.id = last.id /\ last'.q = last.q
            /\ cart' = cart /\ favorites' = favorites
            /\ detail' = detail
    ]_vars

\* C25 witness: a confirm with 3 displayed has found product 2 held 3 times
\* and left the cart as it was.
C25_Witness ==
  /\ last.op = "confirm"
  /\ last.id = 2 /\ last.q = 3
  /\ detail.quantity = 3
  /\ getProductQuantityInCart(cart, 2) = 3
  /\ prevCart = cart

\* n times x, by repeated addition.
RECURSIVE Times(_, _)
Times(n, x) == IF n <= 0 THEN 0 ELSE x + Times(n - 1, x)

\* C27: totalPrice is the unit price times the displayed quantity, 0 while
\* the product has not loaded, and the unit price when the quantity is 1.
C27_TotalPriceIsUnitTimesQuantity ==
  detail.open =>
    /\ detail.loaded =>
         totalPrice(detail) = Times(detail.quantity, Price(detail.productId))
    /\ ~detail.loaded => totalPrice(detail) = 0
    /\ (detail.loaded /\ detail.quantity = 1) =>
         totalPrice(detail) = Price(detail.productId)

\* C27 witness: product 2 (unit price 5) is displayed with quantity 3.
C27_Witness ==
  /\ detail.open /\ detail.loaded
  /\ detail.productId = 2
  /\ detail.quantity = 3
  /\ totalPrice(detail) = 15

\* C28 (as claimed): in a run of the process in which writes were put in
\* flight and none was rejected, once no write is in flight what is stored
\* is a snapshot of the store's version holding the cart and the favorites
\* in memory.
C28_StoredEqualsMemoryWhenQuiet ==
  (written = "ok" /\ pending = << >>) =>
    /\ StoredIsValid(durable)
    /\ Parse(durable.text).state.cart = cart
    /\ Parse(durable.text).state.favorites = favorites

\* C29 (as claimed): when the startup read has answered, every product put
\* in the cart and every favorite added before it answered is still in the
\* cart, or in the favorites.
C29_EarlyMutationKept ==
  last.op = "hydrate" =>
    /\ \A i \in DOMAIN prevCart : HasLine(cart, prevCart[i].product)
    /\ \A i \in DOMAIN prevFav : isFavorite(favorites, prevFav[i])

\* C26 (as claimed): two handleIncrement taps on the same cart line, one
\* right after the other with no render in between, leave the line's
\* quantity 2 above what it was before the first.
C26_TwoTapsAddTwo ==
  [][ (/\ last.op = "handleIncrement"
       /\ last'.op = "handleIncrement"
       /\ last'.id = last.id
       /\ HasLine(prevCart, last.id))
      => getProductQuantityInCart(cart', last.id)
           = getProductQuantityInCart(prevCart, last.id) + 2
    ]_vars

\* C30: through the product card's add, the cart screen's handleIncrement
\* and handleDecrement and the detail view, every cart line has a quantity
\* >= 1 and the quantity displayed in the detail view is >= 1;
\* handleDecrement calls updateQuantity only with a quantity >= 1, and on a
\* quantity of 1 the cart is left alone or the line is removed.
C30_UiKeepsQuantitiesPositive ==
  /\ \A i \in DOMAIN cart : cart[i].quantity >= 1
  /\ detail.quantity >= 1
  /\ last.op = "handleDecrement" => last.q >= 1
  /\ last.op = "handleRemoveItem" =>
       (cart = prevCart \/ cart = removeFromCart(prevCart, last.id))

\* C30 witness: handleDecrement on the only line, of quantity 1, was
\* answered with Remove and the cart is empty.
C30_Witness ==
  /\ last.op = "handleRemoveItem"
  /\ prevCart = <<[product |-> 1, quantity |-> 1]>>
  /\ rendered = prevCart
  /\ cart = << >>

====
